---- MODULE Spec2Model ----
(***************************************************************************)
(* The secrets-manager plugin of src/main.go: OnSessionOpen resolves the   *)
(* connection environment entries of a session ("<provider>:<secret-id>:   *)
(* <secret-key>" references, base64 in, base64 out) against AWS Secrets    *)
(* Manager or a JSON-valued process environment variable.                  *)
(*                                                                         *)
(* A Go string is modelled as the sequence of its characters, each a       *)
(* one-character string: "aws" is <<"a", "w", "s">>.  The texts of the     *)
(* model are printable ASCII.                                              *)
(***************************************************************************)
EXTENDS Naturals, Sequences, FiniteSets, TLC

(***************************************************************************)
(* Characters and their byte values.                                       *)
(***************************************************************************)
Ascii ==
  << " ", "!", "\"", "#", "$", "%", "&", "'", "(", ")", "*", "+", ",", "-", ".", "/",
     "0", "1", "2", "3", "4", "5", "6", "7", "8", "9", ":", ";", "<", "=", ">", "?",
     "@", "A", "B", "C", "D", "E", "F", "G", "H", "I", "J", "K", "L", "M", "N", "O",
     "P", "Q", "R", "S", "T", "U", "V", "W", "X", "Y", "Z", "[", "\\", "]", "^", "_",
     "bq", "a", "b", "c", "d", "e", "f", "g", "h", "i", "j", "k", "l", "m", "n", "o",
     "p", "q", "r", "s", "t", "u", "v", "w", "x", "y", "z", "{", "|", "}", "~" >>

\* The byte value of a printable character (32..126); "bq" stands for the
\* backquote (byte 96), which a string of this language cannot hold.
OrdTable == [c \in {Ascii[i] : i \in 1..Len(Ascii)} |-> 31 + (CHOOSE i \in 1..Len(Ascii) : Ascii[i] = c)]

Ord(c) == OrdTable[c]

\* The character of a byte value; bytes outside printable ASCII are not told apart.
Chr(n) == IF n \in 32..126 THEN Ascii[n - 31] ELSE "\\x"

\* The 64 digits of base64.StdEncoding, in value order; "=" is its padding.
B64Chars ==
  << "A", "B", "C", "D", "E", "F", "G", "H", "I", "J", "K", "L", "M", "N", "O", "P",
     "Q", "R", "S", "T", "U", "V", "W", "X", "Y", "Z", "a", "b", "c", "d", "e", "f",
     "g", "h", "i", "j", "k", "l", "m", "n", "o", "p", "q", "r", "s", "t", "u", "v",
     "w", "x", "y", "z", "0", "1", "2", "3", "4", "5", "6", "7", "8", "9", "+", "/" >>

B64Set == {B64Chars[i] : i \in 1..Len(B64Chars)}

\* The value of a digit; the padding counts as 0.
B64Table == [c \in B64Set |-> (CHOOSE i \in 1..Len(B64Chars) : B64Chars[i] = c) - 1]

B64Index(c) == IF c = "=" THEN 0 ELSE B64Table[c]

(***************************************************************************)
(* base64.StdEncoding.EncodeToString: three bytes become four digits, the  *)
(* last group is padded with "=".                                          *)
(***************************************************************************)
RECURSIVE EncodeToString(_)
EncodeToString(s) ==
  IF s = <<>> THEN <<>>
  ELSE LET n  == Len(s)
           b1 == Ord(s[1])
           b2 == IF n >= 2 THEN Ord(s[2]) ELSE 0
           b3 == IF n >= 3 THEN Ord(s[3]) ELSE 0
           v  == b1 * 65536 + b2 * 256 + b3
           c1 == B64Chars[(v \div 262144) + 1]
           c2 == B64Chars[((v \div 4096) % 64) + 1]
           c3 == IF n >= 2 THEN B64Chars[((v \div 64) % 64) + 1] ELSE "="
           c4 == IF n >= 3 THEN B64Chars[(v % 64) + 1] ELSE "="
       IN  <<c1, c2, c3, c4>> \o (IF n > 3 THEN EncodeToString(SubSeq(s, 4, n)) ELSE <<>>)

\* The input is whole groups of four digits, padded only at its end.
B64WellFormed(s) ==
  LET n == Len(s) IN
  /\ n % 4 = 0
  /\ \A i \in 1..n :
       \/ s[i] \in B64Set
       \/ /\ s[i] = "="
          /\ i >= n - 1
          /\ s[n] = "="

RECURSIVE B64DecodeGroups(_)
B64DecodeGroups(s) ==
  IF s = <<>> THEN <<>>
  ELSE LET n  == Len(s)
           v  == B64Index(s[1]) * 262144 + B64Index(s[2]) * 4096
                 + B64Index(s[3]) * 64 + B64Index(s[4])
           b1 == Chr(v \div 65536)
           b2 == Chr((v \div 256) % 256)
           b3 == Chr(v % 256)
           out == IF s[3] = "=" THEN <<b1>>
                  ELSE IF s[4] = "=" THEN <<b1, b2>>
                  ELSE <<b1, b2, b3>>
       IN  out \o (IF n > 4 THEN B64DecodeGroups(SubSeq(s, 5, n)) ELSE <<>>)

(***************************************************************************)
(* base64.StdEncoding.DecodeString: the decoded bytes, or an error.        *)
(***************************************************************************)
DecodeString(s) ==
  IF B64WellFormed(s)
  THEN [ok |-> TRUE, val |-> B64DecodeGroups(s)]
  ELSE [ok |-> FALSE, val |-> <<>>]

(***************************************************************************)
(* strings.Split(val, ":"): the segments between the colons, at least one. *)
(***************************************************************************)
RECURSIVE Split(_)
Split(s) ==
  IF \A i \in 1..Len(s) : s[i] # ":"
  THEN <<s>>
  ELSE LET i == CHOOSE j \in 1..Len(s) :
                  s[j] = ":" /\ \A k \in 1..(j - 1) : s[k] # ":"
       IN  <<SubSeq(s, 1, i - 1)>> \o Split(SubSeq(s, i + 1, Len(s)))

(***************************************************************************)
(* json.Unmarshal into a map[string]string.  The text is an object whose   *)
(* members are strings (no escapes) or null; a null member leaves the      *)
(* element at its zero value "", the literal null leaves the map nil, and  *)
(* everything else (other value types, a syntax error) is an error.        *)
(***************************************************************************)
EmptyMap == [k \in {} |-> <<>>]

JsonFail == [ok |-> FALSE, map |-> EmptyMap]

RECURSIVE skipWs(_, _)
skipWs(s, i) == IF i <= Len(s) /\ s[i] = " " THEN skipWs(s, i + 1) ELSE i

\* The index of the first quote of s at or after i, or 0.
RECURSIVE closeQuote(_, _)
closeQuote(s, i) ==
  IF i > Len(s) THEN 0
  ELSE IF s[i] = "\"" THEN i
  ELSE closeQuote(s, i + 1)

\* A string literal whose opening quote is s[i].
scanString(s, i) ==
  LET j == closeQuote(s, i + 1) IN
  IF i > Len(s) \/ s[i] # "\"" \/ j = 0
  THEN [ok |-> FALSE, str |-> <<>>, next |-> 0]
  ELSE [ok |-> TRUE, str |-> SubSeq(s, i + 1, j - 1), next |-> j + 1]

\* A member's value: a string, or null.
scanValue(s, i) ==
  IF i + 3 <= Len(s) /\ SubSeq(s, i, i + 3) = <<"n", "u", "l", "l">>
  THEN [ok |-> TRUE, str |-> <<>>, next |-> i + 4]
  ELSE scanString(s, i)

\* acc with member k set to v; a repeated member keeps its last value.
withMember(acc, k, v) ==
  [x \in DOMAIN acc \cup {k} |-> IF x = k THEN v ELSE acc[x]]

\* The members of an object from s[i] on, a member's key at s[i]: the key,
\* the colon at s[c], the value, and the comma or closing brace at s[e].
RECURSIVE scanMembers(_, _, _)
afterValue(s, e, m) ==
  IF e > Len(s) THEN JsonFail
  ELSE IF s[e] = "," THEN scanMembers(s, skipWs(s, e + 1), m)
  ELSE IF s[e] = "}" /\ skipWs(s, e + 1) > Len(s) THEN [ok |-> TRUE, map |-> m]
  ELSE JsonFail

scanMember(s, k, v, acc) ==
  IF ~v.ok THEN JsonFail
  ELSE afterValue(s, skipWs(s, v.next), withMember(acc, k.str, v.str))

afterKey(s, k, c, acc) ==
  IF ~k.ok \/ c > Len(s) \/ s[c] # ":" THEN JsonFail
  ELSE scanMember(s, k, scanValue(s, skipWs(s, c + 1)), acc)

keyAt(s, k, acc) == afterKey(s, k, skipWs(s, k.next), acc)

scanMembers(s, i, acc) == keyAt(s, scanString(s, i), acc)

Unmarshal(s) ==
  LET i == skipWs(s, 1)
      j == skipWs(s, i + 1)
  IN  IF i + 3 <= Len(s) /\ SubSeq(s, i, i + 3) = <<"n", "u", "l", "l">>
         /\ skipWs(s, i + 4) > Len(s)
      THEN [ok |-> TRUE, map |-> EmptyMap]
      ELSE IF i > Len(s) \/ s[i] # "{" THEN JsonFail
      ELSE IF j <= Len(s) /\ s[j] = "}"
      THEN (IF skipWs(s, j + 1) > Len(s) THEN [ok |-> TRUE, map |-> EmptyMap] ELSE JsonFail)
      ELSE scanMembers(s, j, EmptyMap)


(***************************************************************************)
(* Values of the program.                                                  *)
(***************************************************************************)
\* A Go map that may be nil (var responseConnEnvVar map[string]any).
NilMap == [isNil |-> TRUE, m |-> EmptyMap]

MkMap(m) == [isNil |-> FALSE, m |-> m]

\* An error value: the message's kind and its arguments.  "at" is the entry
\* the loop was at when the error was returned.
NoErr == [kind |-> "nil", at |-> <<>>, a |-> <<>>, b |-> <<>>]

Err(kind, a, b) == [kind |-> kind, at |-> <<>>, a |-> a, b |-> b]

\* A structured log record of hclog: level, message, and the key/value pairs
\* the plugin passes ("session", "key", "val" or "verb", "length").
Rec(level, msg, session, key, val, length) ==
  [level |-> level, msg |-> msg, session |-> session, key |-> key, val |-> val,
   length |-> length]

\* The provider names of the reference grammar.
secretProviderAWSSecretsManager == <<"a", "w", "s">>

secretProviderEnvJSON == <<"e", "n", "v", "j", "s", "o", "n">>

(***************************************************************************)
(* The world outside the plugin: the process environment at start, and the *)
(* secrets the remote store holds.                                         *)
(***************************************************************************)
\* {"H":"db.internal","P":""}
TxtBundle ==
  << "{", "\"", "H", "\"", ":", "\"", "d", "b", ".", "i", "n", "t", "e", "r", "n", "a",
     "l", "\"", ",", "\"", "P", "\"", ":", "\"", "\"", "}" >>

\* {"H":"other.host.x"}
TxtOtherBundle ==
  << "{", "\"", "H", "\"", ":", "\"", "o", "t", "h", "e", "r", ".", "h", "o", "s", "t",
     ".", "x", "\"", "}" >>

TxtNotJson == <<"x">>

\* S holds a bundle, U holds a text that is no JSON object, every other
\* variable is unset.
InitialEnv == (<<"S">> :> TxtBundle) @@ (<<"U">> :> TxtNotJson)

\* Secret A is a bundle, secret C is a string that is no JSON object, every
\* other secret id is refused by the remote store.
AwsStore ==
  (<<"A">> :> [ok |-> TRUE, body |-> TxtBundle])
    @@ (<<"C">> :> [ok |-> TRUE, body |-> TxtNotJson])

\* svc.GetSecretValue: the remote call.
GetSecretValue(secretID) ==
  IF secretID \in DOMAIN AwsStore
  THEN AwsStore[secretID]
  ELSE [ok |-> FALSE, body |-> <<"4", "0", "0">>]

\* os.Getenv: the value of a variable, "" when it is unset.
Getenv(env, name) == IF name \in DOMAIN env THEN env[name] ELSE <<>>

\* os.Setenv refuses an empty name and a name holding "=".
SetenvFails(name) == name = <<>> \/ \E i \in 1..Len(name) : name[i] = "="

Setenv(env, name, val) ==
  [n \in DOMAIN env \cup {name} |-> IF n = name THEN val ELSE env[n]]

(***************************************************************************)
(* Logging: main() sets the logger's level from LOG_LEVEL and gives the    *)
(* AWS client's logger a sink only at "trace".                             *)
(***************************************************************************)
LogLevels == {"info", "debug", "trace"}

hcLogLevel(level) == IF level \in {"debug", "trace"} THEN "debug" ELSE "info"

\* The records of recs that the logger writes to its sink.
Emitted(level, recs) ==
  {r \in recs : r.level = "info" \/ hcLogLevel(level) = "debug"}

\* awsLogger.Write: the bytes the AWS client logs, as debug records.
awsLoggerWrite(level, b) ==
  IF level = "trace"
  THEN {Rec("debug", "aws", <<>>, <<>>, b, 0)}
  ELSE {}


(***************************************************************************)
(* The provider.                                                           *)
(***************************************************************************)
\* The AWS client newValAttr builds logs each request and each response with
\* its body (aws.LogRequest | aws.LogResponseWithBody) to awsLogger.
clientLog(level, secretID, resp) ==
  awsLoggerWrite(level, secretID) \cup awsLoggerWrite(level, resp.body)

\* getAWSSecretValue: the bundle of a secret id, or an error.
getAWSSecretValue(svc, secretID) ==
  LET resp == GetSecretValue(secretID)
      keyValSecret == Unmarshal(resp.body)
  IN  IF ~svc THEN [ok |-> FALSE, map |-> EmptyMap, called |-> FALSE]
      ELSE IF ~resp.ok THEN [ok |-> FALSE, map |-> EmptyMap, called |-> TRUE]
      ELSE IF ~keyValSecret.ok THEN [ok |-> FALSE, map |-> EmptyMap, called |-> TRUE]
      ELSE [ok |-> TRUE, map |-> keyValSecret.map, called |-> TRUE]

\* What parseConnectionVal returns: the value, the error, the provider
\* fetches it made (secret ids) and the records the AWS client logged.
ParseResult(val, err, fetched, wire) ==
  [val |-> val, err |-> err, fetched |-> fetched, wire |-> wire]

\* A variant of isReference that also takes more than three segments.
isReferenceAtLeast3(parts) == Len(parts) >= 3

\* len(parts) != 3 is "not a secret reference".
isReference(parts) == Len(parts) = 3

\* A variant of notImplemented that treats the entry as no reference.
notImplementedSkips(secretProvider) == ParseResult(<<>>, NoErr, {}, {})

\* The fall-through of the provider switch.
notImplemented(secretProvider) ==
  ParseResult(<<>>, Err("NotImplemented", secretProvider, <<>>), {}, {})

\* parseConnectionVal on "<provider>:<secret-id>:<secret-key>".
parseConnectionVal(smService, val, env, level) ==
  LET parts          == Split(val)
      secretProvider == parts[1]
      secretID       == parts[2]
      secretKey      == parts[3]
      keyVal         == getAWSSecretValue(smService, secretID)
      wire           == IF keyVal.called
                        THEN clientLog(level, secretID, GetSecretValue(secretID))
                        ELSE {}
      envJson        == Getenv(env, secretID)
      envMap         == Unmarshal(envJson)
  IN  IF ~isReference(parts) THEN ParseResult(<<>>, NoErr, {}, {})
      ELSE IF secretProvider = secretProviderAWSSecretsManager
      THEN IF ~smService
           THEN ParseResult(<<>>, Err("MissingCredentials", <<>>, <<>>), {}, {})
           ELSE IF ~keyVal.ok
           THEN ParseResult(<<>>, Err("AwsGet", secretID, secretKey), {secretID}, wire)
           ELSE IF secretKey \notin DOMAIN keyVal.map
           THEN ParseResult(<<>>, Err("AwsKeyNotFound", secretID, secretKey),
                            {secretID}, wire)
           ELSE ParseResult(keyVal.map[secretKey], NoErr, {secretID}, wire)
      ELSE IF secretProvider = secretProviderEnvJSON
      THEN IF envJson = <<>>
           THEN ParseResult(<<>>, Err("EnvNotFound", secretID, <<>>), {secretID}, {})
           ELSE IF ~envMap.ok
           THEN ParseResult(<<>>, Err("EnvJsonDecode", secretID, <<>>), {secretID}, {})
           ELSE IF secretKey \notin DOMAIN envMap.map
           THEN ParseResult(<<>>, Err("EnvKeyNotFound", secretKey, secretID),
                            {secretID}, {})
           ELSE ParseResult(envMap.map[secretKey], NoErr, {secretID}, {})
      ELSE notImplemented(secretProvider)

(***************************************************************************)
(* Redaction.                                                              *)
(***************************************************************************)
\* A variant of redactVal whose threshold is one character lower.
redactValFrom8(val) ==
  IF Len(val) >= 8
  THEN SubSeq(val, 1, 2) \o <<"#", "#", "#">> \o SubSeq(val, Len(val) - 1, Len(val))
  ELSE <<"#", "#", "#", "#", "#", "#", "#">>

\* The redactVal of logRedactVal.
redactVal(val) ==
  IF Len(val) > 8
  THEN SubSeq(val, 1, 2) \o <<"#", "#", "#">> \o SubSeq(val, Len(val) - 1, Len(val))
  ELSE <<"#", "#", "#", "#", "#", "#", "#">>

\* logRedactVal: the debug record "found secret".
logRedactVal(envKey, val) ==
  Rec("debug", "found secret", <<>>, envKey, redactVal(val), Len(val))


(***************************************************************************)
(* secretManagerGetter, one iteration of each of its loops.                *)
(***************************************************************************)
\* The body of the loop over params.PluginEnvVars for one key.
pluginIteration(key, val, env) ==
  LET decVal == DecodeString(val)
      rec    == Rec("debug", "setting env", <<>>, key, <<>>, Len(decVal.val))
  IN  IF ~decVal.ok
      THEN [env |-> env, err |-> Err("DecodePluginConfig", key, <<>>), recs |-> {}]
      ELSE IF SetenvFails(key)
      THEN [env |-> env, err |-> Err("SetenvPluginConfig", key, <<>>), recs |-> {rec}]
      ELSE [env |-> Setenv(env, key, decVal.val), err |-> NoErr, recs |-> {rec}]

\* A variant of isBypassed that keeps every entry.
neverBypassed(secretVal) == FALSE

\* secretVal == "" bypasses the entry.
isBypassed(secretVal) == secretVal = <<>>

\* A variant of encodeResolved that stores the value as it is.
encodeResolvedRaw(secretVal) == secretVal

\* The value stored under envKey in the response.
encodeResolved(secretVal) == EncodeToString(secretVal)

put(out, envKey, v) ==
  MkMap([k \in DOMAIN out.m \cup {envKey} |-> IF k = envKey THEN v ELSE out.m[k]])

\* The body of the loop over params.ConnectionEnvVars for one entry.
connIteration(envKey, val, out, smService, env, level) ==
  LET decVal == DecodeString(val.str)
      out1   == IF out.isNil THEN MkMap(EmptyMap) ELSE out
      parsed == parseConnectionVal(smService, decVal.val, env, level)
      fetched == {<<envKey, id>> : id \in parsed.fetched}
  IN  IF ~val.isString
      THEN [out |-> out, err |-> [Err("InconsistentType", envKey, <<>>) EXCEPT !.at = envKey],
            fetched |-> {}, recs |-> {}]
      ELSE IF ~decVal.ok
      THEN [out |-> out, err |-> [Err("DecodeVal", envKey, <<>>) EXCEPT !.at = envKey],
            fetched |-> {}, recs |-> {}]
      ELSE IF parsed.err # NoErr
      THEN [out |-> out1, err |-> [parsed.err EXCEPT !.at = envKey],
            fetched |-> fetched, recs |-> parsed.wire]
      ELSE IF isBypassed(parsed.val)
      THEN [out |-> out1, err |-> NoErr, fetched |-> fetched,
            recs |-> parsed.wire \cup {Rec("debug", "bypassing", <<>>, envKey, <<>>, 0)}]
      ELSE [out |-> put(out1, envKey, encodeResolved(parsed.val)), err |-> NoErr,
            fetched |-> fetched,
            recs |-> parsed.wire \cup {logRedactVal(envKey, parsed.val)}]

\* A variant of rangeRest that leaves the loop at a bypassed entry.
rangeRestBreaks(todo, envKey, out) ==
  IF envKey \in DOMAIN out.m THEN todo \ {envKey} ELSE {}

\* The entries the range loop still has to visit after envKey.
rangeRest(todo, envKey, out) == todo \ {envKey}

\* A variant of getterReturn that returns the map built so far.
getterReturnPartial(out, err) == out

\* What secretManagerGetter returns beside its error.
getterReturn(out, err) == IF err # NoErr THEN NilMap ELSE out

\* resp.ConnectionEnvVars after OnSessionOpen.
respAfterOpen(resp, connectionEnvVars, err) ==
  IF err # NoErr THEN resp
  ELSE IF connectionEnvVars.isNil THEN resp
  ELSE connectionEnvVars

(***************************************************************************)
(* The requests of the model.                                              *)
(***************************************************************************)
\* The most entries of a session's ConnectionEnvVars.
MaxEntries == 2

Str(t) == [isString |-> TRUE, str |-> EncodeToString(t)]

\* The decoded texts of the connection entries.
ConnTexts ==
  << <<"e", "n", "v", "j", "s", "o", "n", ":", "S", ":", "H">>,
     <<"e", "n", "v", "j", "s", "o", "n", ":", "S", ":", "P">>,
     <<"e", "n", "v", "j", "s", "o", "n", ":", "S", ":", "X">>,
     <<"e", "n", "v", "j", "s", "o", "n", ":", "T", ":", "H">>,
     <<"e", "n", "v", "j", "s", "o", "n", ":", "U", ":", "H">>,
     <<"a", "w", "s", ":", "A", ":", "H">>,
     <<"a", "w", "s", ":", "A", ":", "P">>,
     <<"a", "w", "s", ":", "B", ":", "H">>,
     <<"a", "w", "s", ":", "C", ":", "H">>,
     <<"v", "a", "u", "l", "t", ":", "S", ":", "H">>,
     <<":", "S", ":", "H">>,
     <<"p", "l", "a", "i", "n">>,
     <<"a", ":", "b">>,
     <<"a", ":", "b", ":", "c", ":", "d">> >>

\* The values an entry can hold: the texts above in base64, a value that is
\* no string, and a string that is no base64.
ConnValues ==
  [i \in 1..Len(ConnTexts) |-> Str(ConnTexts[i])]
    \o << [isString |-> FALSE, str |-> <<>>],
          [isString |-> TRUE, str |-> <<"n", "o", "!">>] >>

ConnKey(i) == <<"K", Ascii[17 + i]>>

\* The keys of a map carry no meaning to the plugin, and Go ranges over a map
\* in any order: a map is taken up to the renaming of its keys.
ConnMaps ==
  UNION {
    { [k \in {ConnKey(i) : i \in 1..n} |->
         ConnValues[f[CHOOSE i \in 1..n : ConnKey(i) = k]]] :
      f \in {g \in [1..n -> 1..Len(ConnValues)] :
               \A i \in 1..n : \A j \in 1..n : i <= j => g[i] <= g[j]} } :
    n \in 0..MaxEntries }

PluginMaps ==
  { EmptyMap,
    (<<"S">> :> EncodeToString(TxtOtherBundle)),
    (<<"T">> :> EncodeToString(TxtBundle)) @@ (<<"S">> :> <<"n", "o", "!">>),
    (<<"T">> :> EncodeToString(TxtBundle)) @@ (<<>> :> EncodeToString(TxtNotJson)) }

SessionParams(sid, verb, pluginEnvVars, connectionEnvVars) ==
  [SessionID |-> sid, ClientVerb |-> verb, PluginEnvVars |-> pluginEnvVars,
   ConnectionEnvVars |-> connectionEnvVars]

Goroutines == {1, 2}

SessionOf(g) == <<"s", Ascii[17 + g]>>

VerbOf(g) == IF g = 1 THEN <<"c", "o", "n", "n", "e", "c", "t">> ELSE <<"e", "x", "e", "c">>


(***************************************************************************)
(* State.                                                                  *)
(***************************************************************************)
VARIABLES
  logLevel,    \* LOG_LEVEL, read once by main()
  env,         \* the process environment: variable name -> value
  sparams,     \* secretManager.params: <<>> (nil) or <<the last session's params>>
  log,         \* the records the logger has written to stderr
  req,         \* per goroutine: <<>>, or <<params>> of the OnSessionOpen call it serves
  pc,          \* per goroutine: where its OnSessionOpen call is
  todoP,       \* per goroutine: the PluginEnvVars keys its range has not visited
  todoC,       \* per goroutine: the ConnectionEnvVars keys its range has not visited
  attr,        \* per goroutine: <<>>, or <<attrInstance>> once newValAttr returned it
  out,         \* per goroutine: responseConnEnvVar
  err,         \* per goroutine: the error of the call
  ret,         \* per goroutine: the map secretManagerGetter returned
  resp,        \* per goroutine: resp.ConnectionEnvVars
  fetched,     \* per goroutine: the provider fetches made, <<entry key, secret id>>
  callArg      \* <<>>, or <<val>> of a direct call of logRedactVal

vars ==
  << logLevel, env, sparams, log, req, pc, todoP, todoC, attr, out, err, ret, resp,
     fetched, callArg >>

\* The state of the goroutines before any call is served.
Idle ==
  /\ sparams = <<>>
  /\ log = {}
  /\ pc = [g \in Goroutines |-> "idle"]
  /\ todoP = [g \in Goroutines |-> {}]
  /\ todoC = [g \in Goroutines |-> {}]
  /\ attr = [g \in Goroutines |-> <<>>]
  /\ out = [g \in Goroutines |-> NilMap]
  /\ err = [g \in Goroutines |-> NoErr]
  /\ ret = [g \in Goroutines |-> NilMap]
  /\ resp = [g \in Goroutines |-> NilMap]
  /\ fetched = [g \in Goroutines |-> {}]

\* One session is opened.
Init ==
  /\ logLevel \in LogLevels
  /\ env = InitialEnv
  /\ \E p \in PluginMaps : \E c \in ConnMaps :
       req = [g \in Goroutines |->
                IF g = 1 THEN <<SessionParams(SessionOf(g), VerbOf(g), p, c)>> ELSE <<>>]
  /\ callArg = <<>>
  /\ Idle

(***************************************************************************)
(* OnSessionOpen, step by step.                                            *)
(***************************************************************************)
\* OnSessionOpen up to the first loop of secretManagerGetter.
Open(g) ==
  /\ pc[g] = "idle"
  /\ req[g] # <<>>
  /\ LET params == req[g][1] IN
     /\ log' = log \cup Emitted(logLevel,
                 { Rec("info", "opening session", params.SessionID, <<>>,
                       params.ClientVerb, 0),
                   Rec("debug", "plugin env vars", <<>>, <<>>, <<>>,
                       Cardinality(DOMAIN params.PluginEnvVars)) })
     /\ sparams' = <<params>>
     /\ todoP' = [todoP EXCEPT ![g] = DOMAIN params.PluginEnvVars]
     /\ todoC' = [todoC EXCEPT ![g] = DOMAIN params.ConnectionEnvVars]
  /\ pc' = [pc EXCEPT ![g] = "setenv"]
  /\ UNCHANGED <<logLevel, env, req, attr, out, err, ret, resp, fetched, callArg>>

\* One iteration of the loop over params.PluginEnvVars.
SetenvStep(g) ==
  /\ pc[g] = "setenv"
  /\ \E key \in todoP[g] :
       LET it == pluginIteration(key, req[g][1].PluginEnvVars[key], env) IN
       /\ env' = it.env
       /\ log' = log \cup Emitted(logLevel, it.recs)
       /\ err' = [err EXCEPT ![g] = it.err]
       /\ todoP' = [todoP EXCEPT ![g] = @ \ {key}]
       /\ pc' = [pc EXCEPT ![g] = IF it.err # NoErr THEN "ret" ELSE "setenv"]
  /\ UNCHANGED <<logLevel, sparams, req, todoC, attr, out, ret, resp, fetched, callArg>>

\* newValAttr: config.LoadDefaultConfig succeeds or fails.
NewValAttr(g) ==
  /\ pc[g] = "setenv"
  /\ todoP[g] = {}
  /\ \E loaded \in BOOLEAN :
       /\ attr' = [attr EXCEPT ![g] = IF loaded THEN <<[smService |-> TRUE]>> ELSE <<>>]
       /\ err' = [err EXCEPT ![g] =
                    IF loaded THEN NoErr ELSE Err("LoadDefaultConfig", <<>>, <<>>)]
       /\ pc' = [pc EXCEPT ![g] = IF loaded /\ todoC[g] # {} THEN "conn" ELSE "ret"]
  /\ UNCHANGED <<logLevel, env, sparams, log, req, todoP, todoC, out, ret, resp,
                 fetched, callArg>>

\* One iteration of the loop over params.ConnectionEnvVars.
ConnStep(g) ==
  /\ pc[g] = "conn"
  /\ \E envKey \in todoC[g] :
       LET it   == connIteration(envKey, req[g][1].ConnectionEnvVars[envKey], out[g],
                                 attr[g][1].smService, env, logLevel)
           rest == rangeRest(todoC[g], envKey, it.out)
       IN
       /\ out' = [out EXCEPT ![g] = it.out]
       /\ err' = [err EXCEPT ![g] = it.err]
       /\ fetched' = [fetched EXCEPT ![g] = @ \cup it.fetched]
       /\ log' = log \cup Emitted(logLevel, it.recs)
       /\ todoC' = [todoC EXCEPT ![g] = IF it.err # NoErr THEN @ \ {envKey} ELSE rest]
       /\ pc' = [pc EXCEPT ![g] = IF it.err # NoErr \/ rest = {} THEN "ret" ELSE "conn"]
  /\ UNCHANGED <<logLevel, env, sparams, req, todoP, attr, ret, resp, callArg>>

\* secretManagerGetter returns, and OnSessionOpen with it.
Return(g) ==
  /\ pc[g] = "ret"
  /\ LET connectionEnvVars == getterReturn(out[g], err[g]) IN
     /\ ret' = [ret EXCEPT ![g] = connectionEnvVars]
     /\ resp' = [resp EXCEPT ![g] = respAfterOpen(@, connectionEnvVars, err[g])]
     /\ log' = log \cup Emitted(logLevel,
                 IF err[g] = NoErr /\ connectionEnvVars.isNil
                 THEN {Rec("info", "empty connection envvars", req[g][1].SessionID,
                           <<>>, <<>>, 0)}
                 ELSE {})
  /\ pc' = [pc EXCEPT ![g] = "done"]
  /\ UNCHANGED <<logLevel, env, sparams, req, todoP, todoC, attr, out, err, fetched,
                 callArg>>

\* OnReceive, for a session that is open: it logs the verb of s.params.
OnReceive(g) ==
  /\ pc[g] = "done"
  /\ err[g] = NoErr
  /\ log' = log \cup Emitted(logLevel,
              {Rec("debug", "on-receive", req[g][1].SessionID, <<>>,
                   sparams[1].ClientVerb, 0)})
  /\ UNCHANGED <<logLevel, env, sparams, req, pc, todoP, todoC, attr, out, err, ret,
                 resp, fetched, callArg>>

\* OnSend, for a session that is open.
OnSend(g) ==
  /\ pc[g] = "done"
  /\ err[g] = NoErr
  /\ log' = log \cup Emitted(logLevel,
              {Rec("debug", "on-send", req[g][1].SessionID, <<>>, <<>>, 0)})
  /\ UNCHANGED <<logLevel, env, sparams, req, pc, todoP, todoC, attr, out, err, ret,
                 resp, fetched, callArg>>

Next ==
  \E g \in Goroutines :
    \/ Open(g)
    \/ SetenvStep(g)
    \/ NewValAttr(g)
    \/ ConnStep(g)
    \/ Return(g)
    \/ OnReceive(g)
    \/ OnSend(g)

Spec == Init /\ [][Next]_vars

(***************************************************************************)
(* Two sessions opened at once: the host serves each call on a goroutine   *)
(* of its own.                                                             *)
(***************************************************************************)
ConcPluginMaps == {EmptyMap, (<<"S">> :> EncodeToString(TxtOtherBundle))}

ConcConnMaps == {EmptyMap, (ConnKey(1) :> ConnValues[1])}

InitConc ==
  /\ logLevel \in LogLevels
  /\ env = InitialEnv
  /\ \E p \in [Goroutines -> ConcPluginMaps] : \E c \in [Goroutines -> ConcConnMaps] :
       req = [g \in Goroutines |-> <<SessionParams(SessionOf(g), VerbOf(g), p[g], c[g])>>]
  /\ callArg = <<>>
  /\ Idle

SpecConc == InitConc /\ [][Next]_vars

(***************************************************************************)
(* logRedactVal called on its own, on every value up to a length.          *)
(***************************************************************************)
\* The longest value redacted.
MaxRedactLen == 10

RedactInputs == UNION {[1..n -> {"a", "b"}] : n \in 0..MaxRedactLen}

InitRedact ==
  /\ logLevel \in LogLevels
  /\ env = InitialEnv
  /\ req = [g \in Goroutines |-> <<>>]
  /\ callArg \in {<<v>> : v \in RedactInputs}
  /\ Idle

LogRedactCall ==
  /\ callArg # <<>>
  /\ log' = log \cup Emitted(logLevel, {logRedactVal(ConnKey(1), callArg[1])})
  /\ UNCHANGED <<logLevel, env, sparams, req, pc, todoP, todoC, attr, out, err, ret,
                 resp, fetched, callArg>>

NextRedact == LogRedactCall

SpecRedact == InitRedact /\ [][NextRedact]_vars

(***************************************************************************)
(* What a pass is expected to do, stated on its inputs alone.              *)
(***************************************************************************)
Done(g) == pc[g] = "done"

Conn(g) == req[g][1].ConnectionEnvVars

Plugin(g) == req[g][1].PluginEnvVars

\* An entry read as the getter reads it: whether it is a string in base64,
\* and the segments of its text.
Entry(v) ==
  LET d == DecodeString(v.str)
  IN  IF v.isString /\ d.ok
      THEN [text |-> TRUE, seg |-> Split(d.val)]
      ELSE [text |-> FALSE, seg |-> <<>>]

\* The entry is a string that is base64.
IsText(v) == Entry(v).text

Segments(v) == Entry(v).seg

KnownProviders == {secretProviderAWSSecretsManager, secretProviderEnvJSON}

\* The bundle a provider holds for a secret id.
Bundle(provider, id, e) ==
  IF provider = secretProviderAWSSecretsManager
  THEN (IF GetSecretValue(id).ok THEN Unmarshal(GetSecretValue(id).body) ELSE JsonFail)
  ELSE (IF Getenv(e, id) = <<>> THEN JsonFail ELSE Unmarshal(Getenv(e, id)))

\* What the provider of a three-segment reference holds under its key.
Lookup(seg, e) ==
  LET b == Bundle(seg[1], seg[2], e)
  IN  IF b.ok /\ seg[3] \in DOMAIN b.map
      THEN [ok |-> TRUE, val |-> b.map[seg[3]]]
      ELSE [ok |-> FALSE, val |-> <<>>]

\* The kind of an entry: "broken" (no string in base64), "plain" (not three
\* segments), "unknown" (a provider that is not known), "unresolved" (the
\* provider holds nothing under the key), "empty" or "value".
Kind(v, e) ==
  LET en == Entry(v)
  IN  IF ~en.text THEN "broken"
      ELSE IF Len(en.seg) # 3 THEN "plain"
      ELSE IF en.seg[1] \notin KnownProviders THEN "unknown"
      ELSE LET r == Lookup(en.seg, e)
           IN  IF ~r.ok THEN "unresolved"
               ELSE IF r.val = <<>> THEN "empty" ELSE "value"

NotReference(v) == LET en == Entry(v) IN en.text /\ Len(en.seg) # 3

UnknownRef(v) ==
  LET en == Entry(v) IN en.text /\ Len(en.seg) = 3 /\ en.seg[1] \notin KnownProviders

\* The entry is a reference to a key its provider's bundle holds.
Resolvable(v, e) == Kind(v, e) \in {"empty", "value"}

Resolved(v, e) == Lookup(Segments(v), e).val

EntryFails(v, e) == Kind(v, e) \in {"broken", "unknown", "unresolved"}

ResolvesEmpty(v, e) == Kind(v, e) = "empty"

ResolvesNonEmpty(v, e) == Kind(v, e) = "value"

PluginFails(p) == \E k \in DOMAIN p : ~DecodeString(p[k]).ok \/ SetenvFails(k)

\* The environment once every plugin variable is set.
EnvWith(e, p) ==
  [n \in DOMAIN e \cup DOMAIN p |->
     IF n \in DOMAIN p THEN DecodeString(p[n]).val ELSE e[n]]

\* The outcome of a pass run alone from environment e, the AWS configuration
\* loading: whether it fails, and the response it leaves.
Expected(params, e) ==
  LET p  == params.PluginEnvVars
      c  == params.ConnectionEnvVars
      e1 == EnvWith(e, p)
  IN  IF PluginFails(p) \/ \E k \in DOMAIN c : EntryFails(c[k], e1)
      THEN [failed |-> TRUE, resp |-> NilMap]
      ELSE [failed |-> FALSE,
            resp |-> IF DOMAIN c = {} THEN NilMap
                     ELSE MkMap([k \in {x \in DOMAIN c : ResolvesNonEmpty(c[x], e1)} |->
                                   EncodeToString(Resolved(c[k], e1))])]

Contains(t, sub) ==
  \E i \in 1..(Len(t) + 1 - Len(sub)) : SubSeq(t, i, i + Len(sub) - 1) = sub

\* The non-empty values of the bundles of the model.
SecretValues ==
  {Unmarshal(t).map[k] : k \in {<<"H">>}, t \in {TxtBundle, TxtOtherBundle}}

Hashes == <<"#", "#", "#", "#", "#", "#", "#">>

(***************************************************************************)
(* Properties.                                                             *)
(***************************************************************************)
\* C1: within one pass, no secret id is fetched from its provider more than
\* once, however many entries refer to it.
C1_SingleFetchPerSecretID ==
  \A g \in Goroutines : \A c \in fetched[g] :
    Cardinality({d \in fetched[g] : d[2] = c[2]}) = 1

\* C2: a pass is all-or-nothing.  When a plugin variable, the provider's
\* construction or any entry fails, the finished call has an error,
\* secretManagerGetter returned no map and resp.ConnectionEnvVars was not
\* written, whatever had been resolved before.
C2_AllOrNothing ==
  \A g \in Goroutines :
    Done(g) =>
      /\ ( \/ PluginFails(Plugin(g))
           \/ attr[g] = <<>>
           \/ \E k \in DOMAIN Conn(g) : EntryFails(Conn(g)[k], env) )
           => err[g] # NoErr
      /\ err[g] # NoErr => ret[g] = NilMap /\ resp[g] = NilMap

\* A pass that had resolved an entry when a key was not found.
C2_Witness ==
  /\ Done(1)
  /\ err[1].kind = "EnvKeyNotFound"
  /\ out[1].m # EmptyMap
  /\ ret[1] = NilMap
  /\ resp[1] = NilMap

\* C3: no record of the log holds a raw secret value, at any log level.
C3_NoRawSecretInLog ==
  \A r \in log : \A v \in SecretValues : ~Contains(r.val, v)

\* C4: a pass opened beside another one ends as it would have ended alone,
\* from the environment the process started with.
C4_PassesIsolated ==
  \A g \in Goroutines :
    Done(g) /\ err[g].kind # "LoadDefaultConfig" =>
      /\ (err[g] # NoErr) = Expected(req[g][1], InitialEnv).failed
      /\ resp[g] = Expected(req[g][1], InitialEnv).resp

\* C5: an entry that resolves to the empty string does not fail the pass and
\* is absent from the response, and no value of a response is the encoding of
\* the empty string.
C5_EmptyResolutionOmitted ==
  \A g \in Goroutines :
    /\ \A k \in DOMAIN resp[g].m : resp[g].m[k] # EncodeToString(<<>>)
    /\ pc[g] \in {"conn", "ret", "done"} =>
         \A k \in DOMAIN Conn(g) :
           ResolvesEmpty(Conn(g)[k], env) =>
             /\ k \notin DOMAIN out[g].m
             /\ k \notin DOMAIN resp[g].m
             /\ err[g].at # k

\* A finished pass with an entry that resolved to "" and one that did not.
C5_Witness ==
  /\ Done(1)
  /\ err[1] = NoErr
  /\ \E k \in DOMAIN Conn(1) : ResolvesEmpty(Conn(1)[k], env)
  /\ resp[1].m # EmptyMap

\* C6: an entry whose text has fewer or more than three segments causes no
\* provider fetch, is absent from the response and is never the entry a pass
\* fails at.
C6_NotAReferencePassesThrough ==
  \A g \in Goroutines :
    req[g] # <<>> =>
      \A k \in DOMAIN Conn(g) :
        NotReference(Conn(g)[k]) =>
          /\ k \notin DOMAIN out[g].m
          /\ k \notin DOMAIN resp[g].m
          /\ err[g].at # k
          /\ \A c \in fetched[g] : c[1] # k

\* A finished pass over an entry of four segments and one of fewer than three.
C6_Witness ==
  /\ Done(1)
  /\ err[1] = NoErr
  /\ \E k \in DOMAIN Conn(1) : IsText(Conn(1)[k]) /\ Len(Segments(Conn(1)[k])) = 4
  /\ \E k \in DOMAIN Conn(1) : IsText(Conn(1)[k]) /\ Len(Segments(Conn(1)[k])) < 3
  /\ resp[1] = MkMap(EmptyMap)
  /\ fetched[1] = {}

\* C7: a three-segment reference to a provider that is neither "aws" nor
\* "envjson" fails the pass: the pass never ends without an error or with a
\* response, the entry is never resolved, and once the loop has visited it
\* the error is the one that names its provider token.
C7_UnknownProviderFails ==
  \A g \in Goroutines :
    req[g] # <<>> =>
      \A k \in DOMAIN Conn(g) :
        UnknownRef(Conn(g)[k]) =>
          /\ Done(g) => err[g] # NoErr /\ ret[g] = NilMap /\ resp[g] = NilMap
          /\ k \notin DOMAIN out[g].m
          /\ pc[g] # "idle" /\ k \notin todoC[g] =>
               err[g] = [kind |-> "NotImplemented", at |-> k,
                         a |-> Segments(Conn(g)[k])[1], b |-> <<>>]

\* A pass that failed at a reference whose provider token is empty, after it
\* had visited another entry.
C7_Witness ==
  /\ Done(1)
  /\ err[1].kind = "NotImplemented"
  /\ err[1].a = <<>>
  /\ out[1] = MkMap(EmptyMap)
  /\ todoC[1] = {}
  /\ Cardinality(DOMAIN Conn(1)) = 2

\* base64("envjson:S:H") and base64("db.internal").
B64RefSH == <<"Z", "W", "5", "2", "a", "n", "N", "v", "b", "j", "p", "T", "O", "k", "g", "=">>

B64DbInternal == <<"Z", "G", "I", "u", "a", "W", "5", "0", "Z", "X", "J", "u", "Y", "W", "w", "=">>

\* C8: in the response of a pass that succeeded, an entry base64("envjson:
\* <id>:<key>") whose variable holds a non-empty value under the key is
\* present with the base64 of that value (base64("db.internal") for
\* envjson:S:H and S = {"H":"db.internal",...}); the keys of the response are
\* entry keys, and each value decodes to what the provider's bundle holds
\* under the referenced key.
C8_EndToEnd ==
  \A g \in Goroutines :
    Done(g) /\ err[g] = NoErr =>
      /\ DOMAIN resp[g].m \subseteq DOMAIN Conn(g)
      /\ \A k \in DOMAIN Conn(g) :
           /\ Conn(g)[k] = [isString |-> TRUE, str |-> B64RefSH]
                /\ Getenv(env, <<"S">>) = TxtBundle
                => k \in DOMAIN resp[g].m /\ resp[g].m[k] = B64DbInternal
           /\ ResolvesNonEmpty(Conn(g)[k], env) /\ Segments(Conn(g)[k])[1] = secretProviderEnvJSON
                => k \in DOMAIN resp[g].m
      /\ \A k \in DOMAIN resp[g].m :
           /\ Resolvable(Conn(g)[k], env)
           /\ DecodeString(resp[g].m[k]) = [ok |-> TRUE, val |-> Resolved(Conn(g)[k], env)]

\* The response {K1: base64("db.internal")} to {K1: base64("envjson:S:H")}.
C8_Witness ==
  /\ Done(1)
  /\ err[1] = NoErr
  /\ Conn(1) = (ConnKey(1) :> [isString |-> TRUE, str |-> B64RefSH])
  /\ resp[1] = MkMap(ConnKey(1) :> B64DbInternal)

\* C9: the record logRedactVal writes carries the length of the value, and
\* as its redacted form seven "#" for a value of at most 8 characters, and
\* the first two characters, "###" and the last two characters for a longer
\* one.
C9_Redaction ==
  callArg # <<>> =>
    \A r \in log :
      LET v == callArg[1]
          n == Len(v)
      IN  /\ r.length = n
          /\ n <= 8 => r.val = Hashes
          /\ n > 8 => r.val = <<v[1], v[2], "#", "#", "#", v[n - 1], v[n]>>

\* The record of a value of 9 characters.
C9_Witness ==
  /\ callArg # <<>>
  /\ Len(callArg[1]) = 9
  /\ \E r \in log : r.val # Hashes /\ r.length = 9

\* C10: the outcome of a pass is a function of its entries, its plugin
\* variables and the providers' contents: whatever order the loops take,
\* it fails exactly when some input fails, and otherwise leaves the same
\* response.
C10_OrderIndependent ==
  \A g \in Goroutines :
    Done(g) /\ err[g].kind # "LoadDefaultConfig" =>
      /\ (err[g] # NoErr) = Expected(req[g][1], InitialEnv).failed
      /\ err[g] = NoErr => resp[g] = Expected(req[g][1], InitialEnv).resp

\* A pass of two entries that failed at the second one it visited.
C10_Witness ==
  /\ Done(1)
  /\ Cardinality(DOMAIN Conn(1)) = 2
  /\ err[1].kind = "NotImplemented"
  /\ out[1].m # EmptyMap

====
